---- MODULE Spec2Model ----
(***************************************************************************)
(* Model of the ThreeDeeRender scene pipeline of foxglove-studio:          *)
(*   - PointClouds (renderables/PointClouds.ts): per-topic renderables,    *)
(*     payload validation, reader resolution, colour-field auto-selection, *)
(*     attribute population;                                               *)
(*   - Renderer (Renderer.ts): construction, the animation-frame loop and  *)
(*     dispose;                                                            *)
(*   - RenderableMarker / RenderableSphere: the marker renderables and the *)
(*     shared caches they use.                                             *)
(* Objects are records; a property an object does not have is a field the  *)
(* record does not have, and reading a property of undefined throws.       *)
(***************************************************************************)
EXTENDS Integers, Sequences, FiniteSets, TLC

VARIABLES
  renderer,            \* the diagnostic sinks of the Renderer handed to PointClouds
  pointCloudsByTopic,  \* PointClouds.pointCloudsByTopic: topic -> renderable.userData
  result,              \* outcome of the last PointClouds call (returned / threw)
  rafQueue,            \* callbacks registered with requestAnimationFrame, not yet run
  currentTime,         \* Renderer.currentTime (0 = undefined)
  fixedFrameId,        \* Renderer.fixedFrameId
  renderFrameId,       \* Renderer.renderFrameId
  log,                 \* calls and events observable from outside the Renderer
  fields,              \* input of autoSelectColorField: the declared fields
  output,              \* output of autoSelectColorField: the settings
  construction,        \* how new Renderer(canvas) ended, and the input handlers it registered
  children,            \* PointClouds.children: the attached renderables, by object id
  nextId,              \* identity of the next object created with new
  materialCache,       \* Renderer.materialCache: acquire and release calls per material id
  disposed,            \* dispose() calls received per geometry and picking material
  transformTree,       \* Renderer.transformTree
  spheres,             \* the RenderableSphere instances, by object id
  renderables,         \* Renderer.renderables: marker id -> object id
  sphereGeometry,      \* RenderableSphere._lod and RenderableSphere._geometry
  lod                  \* Renderer.lod

pcVars == <<renderer, pointCloudsByTopic, result>>
rendererVars == <<rafQueue, currentTime, fixedFrameId, renderFrameId, log, construction>>
selectVars == <<fields, output>>
sceneVars == <<children, nextId, materialCache, disposed>>
frameVars == <<transformTree>>
markerVars == <<spheres, renderables, sphereGeometry, lod>>
vars == <<renderer, pointCloudsByTopic, result, rafQueue, currentTime, fixedFrameId,
          renderFrameId, log, fields, output, construction, children, nextId,
          materialCache, disposed, transformTree, spheres, renderables,
          sphereGeometry, lod>>

-----------------------------------------------------------------------------
(* Bounds of the model *)

MaxStamp == 2
MaxPoints == 2
MaxLog == 16
MaxFields == 2
MaxObjects == 7
MaxSpheres == 2
MaxMarkerId == 1

-----------------------------------------------------------------------------
(* Values *)

Undefined == "undefined"
HasProp(obj, name) == name \in DOMAIN obj

INVALID_POINT_CLOUD == "INVALID_POINT_CLOUD"
DEFAULT_POINT_SIZE == "1.5"
DEFAULT_POINT_SHAPE == "circle"
DEFAULT_COLOR_MODE == "Turbo"
DEFAULT_FLAT_COLOR == [r |-> 1, g |-> 1, b |-> 1, a |-> 1]
DEFAULT_MIN_COLOR == [r |-> 0, g |-> 0, b |-> 1, a |-> 1]
DEFAULT_MAX_COLOR == [r |-> 1, g |-> 0, b |-> 0, a |-> 1]
DEFAULT_RGB_BYTE_ORDER == "rgba"
COLOR_FIELDS == {"rgb", "rgba", "bgr", "bgra", "abgr", "color"}
INTENSITY_FIELDS == {"intensity", "i"}

PosInf == 1000
NegInf == 0 - PosInf

Min2(a, b) == IF a < b THEN a ELSE b
Max2(a, b) == IF a > b THEN a ELSE b

-----------------------------------------------------------------------------
(* PointCloud2 messages *)

Topics == {"/lidar"}

F(n, o, t) == [name |-> n, offset |-> o, datatype |-> t]

Byte(i) == (2 * i + i \div 3) % 3
Data(n) == [i \in 1..n |-> Byte(i)]

\* n points of pointStep bytes in one row
WellFormed(pointStep, n) ==
  [is_bigendian |-> FALSE, point_step |-> pointStep, row_step |-> n * pointStep,
   height |-> 1, width |-> n, data |-> Data(n * pointStep)]

\* the payload with one part changed
Defects(p) ==
  { [p EXCEPT !.is_bigendian = TRUE],
    [p EXCEPT !.data = Append(p.data, 1)],
    [p EXCEPT !.point_step = 0],
    [p EXCEPT !.height = p.height + 1],
    [p EXCEPT !.width = p.width + 1] }

BasePayload == WellFormed(2, 2)
\* the same bytes as two rows of one point
TwoRows == [BasePayload EXCEPT !.height = 2, !.width = 1, !.row_step = 2]
WellFormedPayloads == { WellFormed(s, n) : s \in 1..2, n \in 0..MaxPoints } \cup {TwoRows}
MalformedPayloads ==
  Defects(BasePayload) \cup { [WellFormed(2, 0) EXCEPT !.point_step = 0] }
\* the same bytes declared as one row of one point, with and without row padding
LoosePayloads ==
  { [BasePayload EXCEPT !.width = 1],
    [BasePayload EXCEPT !.width = 1, !.row_step = 2] }
Payloads == WellFormedPayloads \cup MalformedPayloads

BaseFields == << F("x", 0, "UINT8"), F("y", 1, "UINT8"), F("z", 0, "UINT8") >>
FieldLayouts ==
  { << >>,
    << F("x", 0, "UINT8") >>,
    << F("rgb", 0, "UINT8") >>,
    << F("x", 0, "UINT8"), F("y", 1, "UINT8") >>,
    << F("z", 1, "UINT8"), F("y", 0, "UINT8") >>,
    << F("x", 1, "UINT8"), F("z", 0, "UINT8") >>,
    BaseFields,
    << F("intensity", 1, "UINT8"), F("x", 0, "UINT8"), F("y", 1, "UINT8") >>,
    << F("x", 0, "UINT8"), F("y", 0, "UINT8"), F("z", 0, "UINT8"), F("rgb", 1, "UINT8") >>,
    << F("y", 0, "UINT8"), F("z", 1, "UINT8"), F("bgr", 1, "UINT8") >>,
    << F("x", 0, "UINT8"), F("y", 0, "UNKNOWN") >>,
    << F("x", 0, "UINT8"), F("y", 2, "UINT8"), F("z", 0, "UINT8") >>,
    << F("rgb", 0, "UNKNOWN"), F("x", 0, "UINT8"), F("y", 1, "UINT8") >>,
    << F("x", 0, "UINT8"), F("y", 1, "UINT8"), F("z", 0, "UINT8"), F("w", 0, "UNKNOWN") >> }

\* odd stamps are in base_link, even stamps in map
FrameOf(stamp) == IF stamp % 2 = 1 THEN "base_link" ELSE "map"
\* the s-th stamp is s half seconds: its count of nanoseconds stays a 32-bit integer
Headers ==
  { [stamp |-> [sec |-> s \div 2, nsec |-> (s % 2) * 500000000],
     frame_id |-> FrameOf(s)] : s \in 1..MaxStamp }

\* a header of the frame of the s-th stamp
Stamped(s) == CHOOSE h \in Headers : h.frame_id = FrameOf(s)

PointCloud2(h, p, fs) ==
  [header |-> h, height |-> p.height, width |-> p.width, fields |-> fs,
   is_bigendian |-> p.is_bigendian, point_step |-> p.point_step,
   row_step |-> p.row_step, data |-> p.data]

\* the payload and the field list vary one at a time around a well-formed message
Messages ==
  { PointCloud2(h, p, BaseFields) : h \in Headers, p \in Payloads }
  \cup { PointCloud2(Stamped(1), BasePayload, fs) : fs \in FieldLayouts }

\* ros.rosTimeToNanoSec: seconds and nanoseconds as one count of nanoseconds
rosTimeToNanoSec(stamp) == stamp.sec * 1000000000 + stamp.nsec

-----------------------------------------------------------------------------
(* Collaborators of PointClouds whose code is outside this source tree *)

\* TopicErrors: one entry per (topic, errorId); a new message replaces the old one
addToTopic(errors, topic, errorId, message) ==
  { e \in errors : ~(e.topic = topic /\ e.errorId = errorId) }
  \cup { [topic |-> topic, errorId |-> errorId, message |-> message] }

\* fieldReaders.getReader: a reader bound to the field's offset, or undefined when
\* the datatype is unknown or the field does not fit in one point record
NoReader == [kind |-> Undefined, offset |-> 0]
getReader(field, stride) ==
  IF field.datatype = "UINT8" /\ field.offset + 1 <= stride
  THEN [kind |-> "uint8", offset |-> field.offset]
  ELSE NoReader

\* DynamicBufferGeometry: attributes of itemCount entries
ZeroPosition == <<0, 0, 0>>
ZeroColor == [colorMode |-> Undefined, rgbByteOrder |-> Undefined,
              minValue |-> 0, maxValue |-> 0, value |-> 0]
NewGeometry == [position |-> << >>, color |-> << >>]
ResizeAttribute(attr, zero, n) ==
  [i \in 1..n |-> IF i <= Len(attr) THEN attr[i] ELSE zero]
Resize(geometry, n) ==
  [position |-> ResizeAttribute(geometry.position, ZeroPosition, n),
   color |-> ResizeAttribute(geometry.color, ZeroColor, n)]

\* colors.getColorConverter: the RGBA of a value is fixed by the colour mode, the
\* byte order and the value range the converter was built with
getColorConverter(settings, minValue, maxValue) ==
  [colorMode |-> settings.colorMode, rgbByteOrder |-> settings.rgbByteOrder,
   minValue |-> minValue, maxValue |-> maxValue]
Convert(converter, colorValue) ==
  [colorMode |-> converter.colorMode, rgbByteOrder |-> converter.rgbByteOrder,
   minValue |-> converter.minValue, maxValue |-> converter.maxValue,
   value |-> colorValue]

-----------------------------------------------------------------------------
(* PointClouds.ts *)

zeroReader == [kind |-> "zero", offset |-> 0]

\* what a read past the end of the data gives: no byte has this value
OutOfRange == -1

\* reader(view, pointOffset)
Read(reader, data, pointOffset) ==
  IF reader.kind = "zero" THEN 0
  ELSE IF pointOffset + reader.offset < Len(data) THEN data[pointOffset + reader.offset + 1]
  ELSE OutOfRange

SetProp(obj, name, value) ==
  [k \in DOMAIN obj \cup {name} |-> IF k = name THEN value ELSE obj[k]]

\* variant: the last matching field instead of the first
LastNamed(fs, names, i) ==
  LET hits == { k \in i..Len(fs) : fs[k].name \in names }
  IN IF hits = {} THEN 0 ELSE CHOOSE k \in hits : \A j \in hits : j <= k

RECURSIVE FirstNamed(_, _, _)
FirstNamed(fs, names, i) ==
  IF i > Len(fs) THEN 0
  ELSE IF fs[i].name \in names THEN i
  ELSE FirstNamed(fs, names, i + 1)

\* the switch on field.name
ColorModeOf(name) ==
  CASE name = "rgb" -> [colorMode |-> "Rgb", rgbByteOrder |-> "rgba"]
    [] name = "bgr" -> [colorMode |-> "Rgb", rgbByteOrder |-> "bgra"]
    [] name = "bgra" -> [colorMode |-> "Rgba", rgbByteOrder |-> "bgra"]
    [] name = "abgr" -> [colorMode |-> "Rgba", rgbByteOrder |-> "abgr"]
    [] OTHER -> [colorMode |-> "Rgba", rgbByteOrder |-> "rgba"]

autoSelectColorField(out, fs) ==
  LET c == FirstNamed(fs, COLOR_FIELDS, 1)
      n == FirstNamed(fs, INTENSITY_FIELDS, 1)
  IN IF c > 0
     THEN [SetProp(out, "colorField", fs[c].name) EXCEPT
             !.colorMode = ColorModeOf(fs[c].name).colorMode,
             !.rgbByteOrder = ColorModeOf(fs[c].name).rgbByteOrder]
     ELSE IF n > 0
     THEN [SetProp(out, "colorField", fs[n].name) EXCEPT !.colorMode = DEFAULT_COLOR_MODE]
     ELSE IF Len(fs) > 0
     THEN [SetProp(out, "colorField", fs[1].name) EXCEPT !.colorMode = DEFAULT_COLOR_MODE]
     ELSE out

DefaultSettings ==
  [pointSize |-> DEFAULT_POINT_SIZE, pointShape |-> DEFAULT_POINT_SHAPE, decayTime |-> 0,
   colorMode |-> "Flat", rgbByteOrder |-> DEFAULT_RGB_BYTE_ORDER,
   flatColor |-> DEFAULT_FLAT_COLOR, minColor |-> DEFAULT_MIN_COLOR,
   maxColor |-> DEFAULT_MAX_COLOR]

\* what the call leaves behind, and whether it returned or threw
Outcome(rend, renderable, threw, message) ==
  [renderer |-> rend, renderable |-> renderable, threw |-> threw, message |-> message]

\* variant: the rejection empties the geometry and returns
invalidPointCloudErrorClearing(rend, renderable, message) ==
  Outcome(IF HasProp(rend, "layerErrors")
          THEN [rend EXCEPT !.layerErrors =
                  addToTopic(@, renderable.topic, INVALID_POINT_CLOUD, message)]
          ELSE rend,
          [renderable EXCEPT !.geometry = Resize(@, 0)], FALSE, message)

invalidPointCloudError(rend, renderable, message) ==
  IF ~HasProp(rend, "layerErrors")
  THEN Outcome(rend, renderable, TRUE, message)
  ELSE LET r1 == [rend EXCEPT !.layerErrors =
                     addToTopic(@, renderable.topic, INVALID_POINT_CLOUD, message)]
       IN IF ~HasProp(renderable, "positionAttribute")
          THEN Outcome(r1, renderable, TRUE, message)
          ELSE IF ~HasProp(renderable, "colorAttribute")
          THEN Outcome(r1, [renderable EXCEPT !.positionAttribute = << >>], TRUE, message)
          ELSE Outcome(r1, [renderable EXCEPT !.positionAttribute = << >>,
                                              !.colorAttribute = << >>], FALSE, message)

\* variant: the remainder of a division by 0 is taken to be 0
NotMultipleOfPositive(length, pointStep) ==
  IF pointStep = 0 THEN FALSE ELSE length % pointStep # 0

\* data.length % point_step !== 0 (x % 0 is NaN)
NotMultiple(length, pointStep) ==
  IF pointStep = 0 THEN TRUE ELSE length % pointStep # 0

\* variant: the record that starts where the data ends is counted as well
PointCountInclusive(length, pointStep) ==
  IF pointStep = 0 THEN PosInf ELSE length \div pointStep + 1

\* Math.trunc(data.length / point_step); division by 0 gives no count
PointCount(length, pointStep) ==
  IF pointStep = 0 THEN PosInf ELSE length \div pointStep

\* the invalid point cloud checks, in order; "" when all pass
StructuralError(pointCloud) ==
  IF pointCloud.is_bigendian THEN "is_bigendian=true is not supported"
  ELSE IF NotMultiple(Len(pointCloud.data), pointCloud.point_step)
  THEN "data length is not a multiple of point_step"
  ELSE IF Len(pointCloud.fields) = 0 THEN "has no fields"
  ELSE IF Len(pointCloud.data) < pointCloud.height * pointCloud.row_step
  THEN "data length is less than height * row_step"
  ELSE IF pointCloud.width * pointCloud.point_step > pointCloud.row_step
  THEN "width * point_step is greater than row_step"
  ELSE ""

NoReaders ==
  [error |-> "", xReader |-> NoReader, yReader |-> NoReader, zReader |-> NoReader,
   colorReader |-> NoReader]

IsColorField(settings, field) ==
  HasProp(settings, "colorField") /\ field.name = settings.colorField

\* the loop over pointCloud.fields, from field i with the readers r bound so far
RECURSIVE ResolveReaders(_, _, _, _, _)
ResolveReaders(fs, settings, pointStep, i, r) ==
  IF i > Len(fs) THEN r
  ELSE
    LET field == fs[i]
        reader == getReader(field, pointStep)
        r1 == IF field.name = "x" THEN [r EXCEPT !.xReader = reader]
              ELSE IF field.name = "y" THEN [r EXCEPT !.yReader = reader]
              ELSE IF field.name = "z" THEN [r EXCEPT !.zReader = reader]
              ELSE r
        r2 == IF IsColorField(settings, field) THEN [r1 EXCEPT !.colorReader = reader]
              ELSE r1
    IN IF field.name \in {"x", "y", "z"} /\ reader = NoReader
       THEN [r1 EXCEPT !.error = "field " \o field.name \o " is invalid"]
       ELSE IF IsColorField(settings, field) /\ reader = NoReader
       THEN [r2 EXCEPT !.error = "field " \o field.name \o " is invalid"]
       ELSE IF r2.xReader # NoReader /\ r2.yReader # NoReader
               /\ r2.zReader # NoReader /\ r2.colorReader # NoReader
       THEN r2
       ELSE ResolveReaders(fs, settings, pointStep, i + 1, r2)

positionReaderCount(r) ==
  (IF r.xReader # NoReader THEN 1 ELSE 0) + (IF r.yReader # NoReader THEN 1 ELSE 0)
  + (IF r.zReader # NoReader THEN 1 ELSE 0)

\* variant: a missing reader is replaced by the zero reader, whatever the alternative
OrElseZero(reader, other) == IF reader # NoReader THEN reader ELSE zeroReader

\* a ??= b
OrElse(reader, other) == IF reader # NoReader THEN reader ELSE other

\* variant: the loop stops after the first point it looks at
ScanRangeOfFirst(data, colorReader, pointStep, pointCount, i, acc) ==
  IF i >= pointCount THEN acc
  ELSE LET colorValue == Read(colorReader, data, i * pointStep)
       IN [min |-> Min2(acc.min, colorValue), max |-> Max2(acc.max, colorValue)]

\* the min/max loop, from point i with the range acc found so far
RECURSIVE ScanRange(_, _, _, _, _, _)
ScanRange(data, colorReader, pointStep, pointCount, i, acc) ==
  IF i >= pointCount THEN acc
  ELSE LET colorValue == Read(colorReader, data, i * pointStep)
       IN ScanRange(data, colorReader, pointStep, pointCount, i + 1,
                    [min |-> Min2(acc.min, colorValue), max |-> Max2(acc.max, colorValue)])

\* variant: x and y written in each other's place
RECURSIVE PopulateSwapped(_, _, _, _, _, _, _)
PopulateSwapped(geometry, data, readers, converter, pointStep, pointCount, i) ==
  IF i >= pointCount THEN geometry
  ELSE LET pointOffset == i * pointStep
           x == Read(readers.xReader, data, pointOffset)
           y == Read(readers.yReader, data, pointOffset)
           z == Read(readers.zReader, data, pointOffset)
           colorValue == Read(readers.colorReader, data, pointOffset)
       IN PopulateSwapped([geometry EXCEPT !.position[i + 1] = <<y, x, z>>,
                                           !.color[i + 1] = Convert(converter, colorValue)],
                          data, readers, converter, pointStep, pointCount, i + 1)

\* variant: the points are read as if they were one byte apart
RECURSIVE PopulatePacked(_, _, _, _, _, _, _)
PopulatePacked(geometry, data, readers, converter, pointStep, pointCount, i) ==
  IF i >= pointCount THEN geometry
  ELSE LET pointOffset == i
           x == Read(readers.xReader, data, pointOffset)
           y == Read(readers.yReader, data, pointOffset)
           z == Read(readers.zReader, data, pointOffset)
           colorValue == Read(readers.colorReader, data, pointOffset)
       IN PopulatePacked([geometry EXCEPT !.position[i + 1] = <<x, y, z>>,
                                          !.color[i + 1] = Convert(converter, colorValue)],
                         data, readers, converter, pointStep, pointCount, i + 1)

\* the population loop, from point i
RECURSIVE Populate(_, _, _, _, _, _, _)
Populate(geometry, data, readers, converter, pointStep, pointCount, i) ==
  IF i >= pointCount THEN geometry
  ELSE LET pointOffset == i * pointStep
           x == Read(readers.xReader, data, pointOffset)
           y == Read(readers.yReader, data, pointOffset)
           z == Read(readers.zReader, data, pointOffset)
           colorValue == Read(readers.colorReader, data, pointOffset)
       IN Populate([geometry EXCEPT !.position[i + 1] = <<x, y, z>>,
                                    !.color[i + 1] = Convert(converter, colorValue)],
                   data, readers, converter, pointStep, pointCount, i + 1)

\* the part of _updatePointCloudRenderable after the checks
WriteGeometry(renderable, pointCloud, r) ==
  LET settings == renderable.settings
      data == pointCloud.data
      pointStep == pointCloud.point_step
      pointCount == PointCount(Len(data), pointStep)
      colorReader == OrElse(r.colorReader,
                       OrElse(r.xReader, OrElse(r.yReader, OrElse(r.zReader, zeroReader))))
      readers == [xReader |-> OrElse(r.xReader, zeroReader),
                  yReader |-> OrElse(r.yReader, zeroReader),
                  zReader |-> OrElse(r.zReader, zeroReader),
                  colorReader |-> colorReader]
      geometry == Resize(renderable.geometry, pointCount)
      pinnedMin == HasProp(settings, "minValue")
      pinnedMax == HasProp(settings, "maxValue")
      start == [min |-> IF pinnedMin THEN settings.minValue ELSE PosInf,
                max |-> IF pinnedMax THEN settings.maxValue ELSE NegInf]
      scanned == IF ~pinnedMin \/ ~pinnedMax
                 THEN ScanRange(data, colorReader, pointStep, pointCount, 0, start)
                 ELSE start
      minColorValue == IF pinnedMin THEN settings.minValue ELSE scanned.min
      maxColorValue == IF pinnedMax THEN settings.maxValue ELSE scanned.max
      colorConverter == getColorConverter(settings, minColorValue, maxColorValue)
  IN [renderable EXCEPT !.geometry =
        Populate(geometry, data, readers, colorConverter, pointStep, pointCount, 0)]

StoreMessage(renderable, pointCloud) ==
  [renderable EXCEPT !.pointCloud = pointCloud,
                     !.srcTime = rosTimeToNanoSec(pointCloud.header.stamp)]

_updatePointCloudRenderable(rend, renderable0, pointCloud) ==
  LET renderable == StoreMessage(renderable0, pointCloud)
      structural == StructuralError(pointCloud)
      r == ResolveReaders(pointCloud.fields, renderable.settings,
                          pointCloud.point_step, 1, NoReaders)
  IN IF structural # "" THEN invalidPointCloudError(rend, renderable, structural)
     ELSE IF r.error # "" THEN invalidPointCloudError(rend, renderable, r.error)
     ELSE IF positionReaderCount(r) < 2
     THEN invalidPointCloudError(rend, renderable, "must contain at least two of x/y/z fields")
     ELSE Outcome(rend, WriteGeometry(renderable, pointCloud, r), FALSE, "")

MapSet(map, key, value) ==
  [k \in DOMAIN map \cup {key} |-> IF k = key THEN value ELSE map[k]]

\* number of calls counted for key k
Count(f, k) == IF k \in DOMAIN f THEN f[k] ELSE 0

\* MaterialCache.acquire / release: one reference more, one reference less
acquire(cache, id) == [cache EXCEPT !.acquired = MapSet(@, id, Count(@, id) + 1)]
release(cache, id) == [cache EXCEPT !.released = MapSet(@, id, Count(@, id) + 1)]

\* PointsVertexColor.id: the material is identified by its configuration
PointsVertexColorId(scale, transparent) ==
  [material |-> "PointsVertexColor", scale |-> scale, transparent |-> transparent]

pointCloudHasTransparency(settings) ==
  CASE settings.colorMode = "Flat" -> settings.flatColor.a < 1
    [] settings.colorMode = "Gradient" -> settings.minColor.a < 1 \/ settings.maxColor.a < 1
    [] settings.colorMode \in {"Rainbow", "Turbo", "Rgb"} -> FALSE
    [] settings.colorMode = "Rgba" -> TRUE

PointsMaterialId(settings) ==
  PointsVertexColorId([x |-> settings.pointSize, y |-> settings.pointSize],
                      pointCloudHasTransparency(settings))

pointsMaterial(settings, cache) == acquire(cache, PointsMaterialId(settings))

releasePointsMaterial(settings, cache) == release(cache, PointsMaterialId(settings))

\* the renderable has not been given a pose by updatePose
NotPlaced == [frameId |-> Undefined, srcTime |-> 0, dstTime |-> 0]

\* the objects a new renderable is made of, in the order they are created
ObjectsPerRenderable == 3

\* the renderable a first message creates
NewRenderable(topic, pointCloud) ==
  [topic |-> topic,
   id |-> nextId,
   geometryId |-> nextId + 1,
   pickingMaterialId |-> nextId + 2,
   settings |-> autoSelectColorField(DefaultSettings, pointCloud.fields),
   pointCloud |-> pointCloud,
   pose |-> "identity",
   placed |-> NotPlaced,
   srcTime |-> rosTimeToNanoSec(pointCloud.header.stamp),
   geometry |-> NewGeometry]

\* variant: a message of another point count gets a new geometry object
RenderableForReallocating(map, topic, pointCloud) ==
  IF topic \in DOMAIN map
  THEN IF Len(map[topic].geometry.position)
          = PointCount(Len(pointCloud.data), pointCloud.point_step)
       THEN map[topic]
       ELSE [map[topic] EXCEPT !.geometryId = nextId, !.geometry = NewGeometry]
  ELSE NewRenderable(topic, pointCloud)

\* variant: the colour field is selected again on every message
RenderableForReselecting(map, topic, pointCloud) ==
  IF topic \in DOMAIN map
  THEN [map[topic] EXCEPT !.settings = autoSelectColorField(DefaultSettings, pointCloud.fields)]
  ELSE NewRenderable(topic, pointCloud)

\* pointCloudsByTopic.get(topic), or the renderable created for a new topic
RenderableFor(map, topic, pointCloud) ==
  IF topic \in DOMAIN map THEN map[topic] ELSE NewRenderable(topic, pointCloud)

addPointCloud2Message(topic, pointCloud) ==
  LET known == topic \in DOMAIN pointCloudsByTopic
      renderable == RenderableFor(pointCloudsByTopic, topic, pointCloud)
      out == _updatePointCloudRenderable(renderer, renderable, pointCloud)
  IN /\ pointCloudsByTopic' = MapSet(pointCloudsByTopic, topic, out.renderable)
     /\ nextId' = IF known THEN nextId ELSE nextId + ObjectsPerRenderable
     /\ materialCache' = IF known THEN materialCache
                         ELSE pointsMaterial(renderable.settings, materialCache)
     /\ children' = IF known THEN children ELSE Append(children, renderable.id)
     /\ renderer' = out.renderer
     /\ result' = [op |-> "addPointCloud2Message", topic |-> topic,
                   pointCloud |-> pointCloud, threw |-> out.threw,
                   message |-> out.message]
     /\ UNCHANGED <<rendererVars, selectVars, disposed, frameVars, markerVars>>

\* pointCloudsByTopic.values(): the topics in insertion order
RECURSIVE InOrder(_)
InOrder(map) ==
  IF DOMAIN map = {} THEN << >>
  ELSE LET first == CHOOSE t \in DOMAIN map : \A u \in DOMAIN map : map[t].id <= map[u].id
       IN << first >> \o InOrder([u \in DOMAIN map \ {first} |-> map[u]])

\* geometry.dispose() / pickingMaterial.dispose() on the object
DisposeObject(counts, object) == MapSet(counts, object, Count(counts, object) + 1)

\* the geometry and the picking material of a renderable: an identity and a name
GeometryOf(userData) ==
  [id |-> userData.geometryId, name |-> userData.topic \o ":PointCloud2:geometry"]
PickingMaterialOf(userData) ==
  [id |-> userData.pickingMaterialId, name |-> ""]

\* the loop of PointClouds.dispose, from the i-th renderable
RECURSIVE DisposeEach(_, _, _, _)
DisposeEach(map, order, i, acc) ==
  IF i > Len(order) THEN acc
  ELSE LET userData == map[order[i]]
       IN DisposeEach(map, order, i + 1,
            [materialCache |-> releasePointsMaterial(userData.settings, acc.materialCache),
             disposed |-> DisposeObject(DisposeObject(acc.disposed, GeometryOf(userData)),
                                        PickingMaterialOf(userData))])

\* variant: the resources are released but the map keeps its renderables
disposeKeepingMap ==
  LET out == DisposeEach(pointCloudsByTopic, InOrder(pointCloudsByTopic), 1,
                         [materialCache |-> materialCache, disposed |-> disposed])
  IN /\ materialCache' = out.materialCache
     /\ disposed' = out.disposed
     /\ children' = << >>
     /\ UNCHANGED pointCloudsByTopic

\* PointClouds.dispose()
dispose ==
  LET out == DisposeEach(pointCloudsByTopic, InOrder(pointCloudsByTopic), 1,
                         [materialCache |-> materialCache, disposed |-> disposed])
  IN /\ materialCache' = out.materialCache
     /\ disposed' = out.disposed
     /\ children' = << >>
     /\ pointCloudsByTopic' = << >>

-----------------------------------------------------------------------------
(* TransformTree and updatePose, whose code is outside this source tree *)

MISSING_TRANSFORM == "MISSING_TRANSFORM"

Frames == {"map", "odom", "base_link"}

NoTransforms == [parents |-> << >>, histories |-> << >>]

\* variant: every sample is appended as it arrives
InsertSampleAppending(history, sample) == Append(history, sample)

\* the history with the sample put at its place in time order; a sample of the
\* same timestamp is replaced
RECURSIVE InsertSample(_, _)
InsertSample(history, sample) ==
  IF history = << >> THEN << sample >>
  ELSE IF sample.time < Head(history).time THEN << sample >> \o history
  ELSE IF sample.time = Head(history).time THEN << sample >> \o Tail(history)
  ELSE << Head(history) >> \o InsertSample(Tail(history), sample)

\* TransformTree.addTransform: frames are created on first reference, the latest
\* parent of a child frame is the one in force
HistoryOf(tree, edge) ==
  IF edge \in DOMAIN tree.histories THEN tree.histories[edge] ELSE << >>

addTransform(tree, childFrame, parentFrame, time, transform) ==
  LET edge == <<childFrame, parentFrame>>
      history == HistoryOf(tree, edge)
  IN [parents |-> MapSet(tree.parents, childFrame, parentFrame),
      histories |-> MapSet(tree.histories, edge,
                           InsertSample(history, [time |-> time, value |-> transform]))]

NoSample == [time |-> 0, value |-> ""]

\* what a per-edge lookup returns: the samples it used and how it found them
Found(status, lower, upper) == [status |-> status, lower |-> lower, upper |-> upper]

\* variant: a lookup outside the history is clamped without saying so
LookupSilently(history, time) ==
  IF history = << >> THEN Found("no samples", NoSample, NoSample)
  ELSE IF time <= history[1].time THEN Found("exact", history[1], history[1])
  ELSE IF time >= history[Len(history)].time
  THEN Found("exact", history[Len(history)], history[Len(history)])
  ELSE IF \E i \in DOMAIN history : history[i].time = time
  THEN LET i == CHOOSE i \in DOMAIN history : history[i].time = time
       IN Found("exact", history[i], history[i])
  ELSE LET i == CHOOSE i \in 1..(Len(history) - 1) :
                  history[i].time < time /\ time < history[i + 1].time
       IN Found("interpolated", history[i], history[i + 1])

\* the per-edge lookup at a time: the sample of that time, else the two samples
\* around it, else the nearest end of the history, reported as out of range
Lookup(history, time) ==
  IF history = << >> THEN Found("no samples", NoSample, NoSample)
  ELSE IF \E i \in DOMAIN history : history[i].time = time
  THEN LET i == CHOOSE i \in DOMAIN history : history[i].time = time
       IN Found("exact", history[i], history[i])
  ELSE IF time < history[1].time THEN Found("out of range", history[1], history[1])
  ELSE IF time > history[Len(history)].time
  THEN Found("out of range", history[Len(history)], history[Len(history)])
  ELSE LET i == CHOOSE i \in 1..(Len(history) - 1) :
                  history[i].time < time /\ time < history[i + 1].time
       IN Found("interpolated", history[i], history[i + 1])

\* the frame and its ancestors, at most n parents up
RECURSIVE Ancestors(_, _, _)
Ancestors(tree, frame, n) ==
  IF n = 0 \/ frame \notin DOMAIN tree.parents THEN {frame}
  ELSE {frame} \cup Ancestors(tree, tree.parents[frame], n - 1)

\* TransformTree.apply succeeds: the frames are one frame or have a common ancestor
\* (every edge has a sample, and a lookup outside its history is clamped)
CanApply(tree, srcFrame, dstFrame) ==
  \/ srcFrame = dstFrame
  \/ Ancestors(tree, srcFrame, Cardinality(Frames))
       \cap Ancestors(tree, dstFrame, Cardinality(Frames)) # {}

\* updatePose: source frame to fixed frame at the source time, fixed frame to render
\* frame at the display time; the renderable is placed only on success
updatePose(renderable, tree, renderFrame, fixedFrame, srcFrame, dstTime, srcTime) ==
  LET updated == CanApply(tree, srcFrame, fixedFrame) /\ CanApply(tree, fixedFrame, renderFrame)
  IN [updated |-> updated,
      renderable |-> IF updated
                     THEN [renderable EXCEPT !.placed =
                             [frameId |-> srcFrame, srcTime |-> srcTime, dstTime |-> dstTime]]
                     ELSE renderable]

\* transforms.missingTransformMessage
missingTransformMessage(renderFrame, fixedFrame, srcFrame) ==
  "Missing transform from frame " \o srcFrame \o " to frame " \o renderFrame
  \o " via " \o fixedFrame

-----------------------------------------------------------------------------
(* PointClouds.startFrame *)

\* the loop of startFrame, from the i-th renderable
RECURSIVE StartFrameEach(_, _, _, _)
StartFrameEach(order, i, time, acc) ==
  IF i > Len(order) \/ acc.threw THEN acc
  ELSE
    LET topic == order[i]
        userData == acc.map[topic]
        frameId == userData.pointCloud.header.frame_id
        pose == updatePose(userData, transformTree, renderFrameId, fixedFrameId, frameId,
                           time, userData.srcTime)
        attempt == [topic |-> topic, frameId |-> frameId, srcTime |-> userData.srcTime,
                    currentTime |-> time, updated |-> pose.updated]
        acc1 == [acc EXCEPT !.map = MapSet(@, topic, pose.renderable),
                            !.attempts = Append(@, attempt)]
    IN IF pose.updated
       THEN StartFrameEach(order, i + 1, time, acc1)
       ELSE IF ~HasProp(acc.renderer, "layerErrors")
       THEN [acc1 EXCEPT !.threw = TRUE]
       ELSE StartFrameEach(order, i + 1, time,
              [acc1 EXCEPT !.renderer.layerErrors =
                 addToTopic(@, topic, MISSING_TRANSFORM,
                            missingTransformMessage(renderFrameId, fixedFrameId, frameId))])

startFrame(time) ==
  LET start == [map |-> pointCloudsByTopic, renderer |-> renderer, attempts |-> << >>,
                threw |-> FALSE]
      out == IF renderFrameId = Undefined \/ fixedFrameId = Undefined
             THEN start
             ELSE StartFrameEach(InOrder(pointCloudsByTopic), 1, time, start)
  IN /\ pointCloudsByTopic' = out.map
     /\ renderer' = out.renderer
     /\ result' = [op |-> "startFrame", threw |-> out.threw, attempts |-> out.attempts]

-----------------------------------------------------------------------------
(* Specifications *)

Emit(lg, event, time) == Append(lg, [event |-> event, time |-> time])

\* variant: the WebGL2 test is made at the end of the constructor
ConstructorCheckingLate(isWebGL2) ==
  [isWebGL2 |-> isWebGL2, threw |-> ~isWebGL2, inputHandlers |-> {"resize", "click"},
   rafQueue |-> 1, log |-> Emit(<< >>, "requestAnimationFrame", 0)]

\* new Renderer(canvas): the WebGL2 test, then the input handlers, then the first
\* animationFrame, which registers itself and draws nothing (no current time yet)
Constructor(isWebGL2) ==
  LET start == [isWebGL2 |-> isWebGL2, threw |-> FALSE, inputHandlers |-> {},
                rafQueue |-> 0, log |-> << >>]
  IN IF ~isWebGL2
     THEN [start EXCEPT !.threw = TRUE]
     ELSE [start EXCEPT !.inputHandlers = {"resize", "click"},
                        !.rafQueue = 1,
                        !.log = Emit(@, "requestAnimationFrame", 0)]

\* the constructor returned a renderer
Constructed == ~construction.threw

\* MaterialCache: no material acquired or released yet
NoMaterials == [acquired |-> << >>, released |-> << >>]

NoResult ==
  [op |-> "new", topic |-> "", threw |-> FALSE, message |-> "",
   pointCloud |-> PointCloud2([stamp |-> [sec |-> 0, nsec |-> 0], frame_id |-> ""],
                           WellFormed(1, 0), << >>)]

\* Renderer.ts declares the sink as topicErrors; PointClouds reports to
\* renderer.layerErrors. Whether the renderer given to the PointClouds
\* constructor has that property is fixed at construction.
Renderers == { [topicErrors |-> {}], [topicErrors |-> {}, layerErrors |-> {}] }

Init ==
  /\ renderer \in Renderers
  /\ pointCloudsByTopic = << >>
  /\ result = NoResult
  /\ \E isWebGL2 \in BOOLEAN :
       /\ construction = [k \in {"isWebGL2", "threw", "inputHandlers"} |->
                            Constructor(isWebGL2)[k]]
       /\ rafQueue = Constructor(isWebGL2).rafQueue
       /\ log = Constructor(isWebGL2).log
  /\ currentTime = 0
  /\ fixedFrameId = Undefined
  /\ renderFrameId = Undefined
  /\ fields = << >>
  /\ output = DefaultSettings
  /\ children = << >>
  /\ nextId = 1
  /\ materialCache = NoMaterials
  /\ disposed = << >>
  /\ transformTree = NoTransforms
  /\ spheres = << >>
  /\ renderables = << >>
  /\ sphereGeometry = [lod |-> Undefined, geometry |-> 0]
  /\ lod = "High"

AddPointCloud2Message ==
  \E topic \in Topics, pointCloud \in Messages :
    Constructed /\ addPointCloud2Message(topic, pointCloud)

NextPointClouds == AddPointCloud2Message
SpecPointClouds == Init /\ [][NextPointClouds]_vars

\* The collection with several topics: messages of two sizes and two colour modes,
\* one of them rejected, and PointClouds.dispose
ManyTopics == {"/lidar", "/radar"}
FewMessages ==
  { PointCloud2(Stamped(1), BasePayload, BaseFields),
    PointCloud2(Stamped(2), WellFormed(2, 1),
                << F("x", 0, "UINT8"), F("y", 1, "UINT8"), F("rgba", 0, "UINT8") >>),
    PointCloud2(Stamped(2), [BasePayload EXCEPT !.is_bigendian = TRUE], BaseFields) }

AddFewPointCloud2Messages ==
  \E topic \in ManyTopics, pointCloud \in FewMessages :
    Constructed /\ addPointCloud2Message(topic, pointCloud)

DisposePointClouds ==
  /\ Constructed
  /\ nextId <= MaxObjects
  /\ dispose
  /\ result' = [NoResult EXCEPT !.op = "dispose"]
  /\ UNCHANGED <<renderer, nextId, rendererVars, selectVars, frameVars, markerVars>>

NextCollection == AddFewPointCloud2Messages \/ DisposePointClouds
SpecCollection == Init /\ [][NextCollection]_vars

\* The colour domain: clouds of up to MaxColorPoints points whose intensity field
\* holds the given values, and a value range pinned through the settings
MaxColorPoints == 3
ColorValues == {0, 5, 10}
\* a minimum inside the range of the data, a maximum of 0 below it
Pins == { [bound |-> "minValue", value |-> 7], [bound |-> "maxValue", value |-> 0] }
ColorFields == << F("x", 0, "UINT8"), F("y", 0, "UINT8"), F("intensity", 1, "UINT8") >>
\* one point per value: the position byte, then the value
ColorData(values) ==
  [i \in 1..(2 * Len(values)) |-> IF i % 2 = 1 THEN 1 ELSE values[i \div 2]]
ColoredPayload(values) ==
  [is_bigendian |-> FALSE, point_step |-> 2, row_step |-> 2 * Len(values),
   height |-> 1, width |-> Len(values), data |-> ColorData(values)]
ColoredMessages ==
  { PointCloud2(Stamped(1), ColoredPayload(values), ColorFields) :
      values \in UNION { [1..n -> ColorValues] : n \in 0..MaxColorPoints } }

AddColoredPointCloud2Messages ==
  \E topic \in Topics, pointCloud \in ColoredMessages :
    Constructed /\ addPointCloud2Message(topic, pointCloud)

\* the configuration pins settings.minValue or settings.maxValue of a topic, once
PinRange ==
  \E topic \in DOMAIN pointCloudsByTopic, pin \in Pins :
    /\ Constructed
    /\ ~HasProp(pointCloudsByTopic[topic].settings, pin.bound)
    /\ pointCloudsByTopic' =
         MapSet(pointCloudsByTopic, topic,
                [pointCloudsByTopic[topic] EXCEPT
                   !.settings = SetProp(@, pin.bound, pin.value)])
    /\ result' = [NoResult EXCEPT !.op = "pinRange"]
    /\ UNCHANGED <<renderer, rendererVars, selectVars, sceneVars, frameVars, markerVars>>

NextColors == AddColoredPointCloud2Messages \/ PinRange
SpecColors == Init /\ [][NextColors]_vars

\* The point count: clouds of every size whose width, height and row_step agree
\* with the number of points or not, with two or three position fields
CountedMessages ==
  { PointCloud2(Stamped(1), p, fs) :
      p \in WellFormedPayloads \cup LoosePayloads,
      fs \in { BaseFields, << F("y", 0, "UINT8"), F("z", 0, "UINT8") >> } }

AddCountedPointCloud2Messages ==
  \E topic \in Topics, pointCloud \in CountedMessages :
    Constructed /\ addPointCloud2Message(topic, pointCloud)

NextCounts == AddCountedPointCloud2Messages
SpecCounts == Init /\ [][NextCounts]_vars

\* The point records and the payload: clouds of every size, well formed or with
\* one defect, a point_step of 0 with and without data among them
BoundedMessages ==
  { PointCloud2(h, p, BaseFields) :
      h \in Headers, p \in WellFormedPayloads \cup LoosePayloads \cup MalformedPayloads }

AddBoundedPointCloud2Messages ==
  \E topic \in Topics, pointCloud \in BoundedMessages :
    Constructed /\ addPointCloud2Message(topic, pointCloud)

NextBounds == AddBoundedPointCloud2Messages
SpecBounds == Init /\ [][NextBounds]_vars

\* The colour reader when the selected colour field is missing: a first message
\* selects "rgb", "x", "y", "z" or (having no fields) nothing, and the later ones declare two
\* of x/y/z at different offsets, with and without that field
FallbackLayouts ==
  { << >>,
    << F("x", 0, "UINT8"), F("y", 1, "UINT8") >>,
    << F("rgb", 1, "UINT8"), F("x", 0, "UINT8"), F("y", 1, "UINT8") >>,
    << F("z", 0, "UINT8"), F("y", 1, "UINT8") >>,
    << F("z", 0, "UINT8"), F("x", 1, "UINT8") >>,
    << F("y", 0, "UINT8"), F("x", 1, "UINT8") >>,
    << F("z", 0, "UINT8") >> }
FallbackMessages == { PointCloud2(Stamped(1), BasePayload, fs) : fs \in FallbackLayouts }

AddFallbackPointCloud2Messages ==
  \E topic \in Topics, pointCloud \in FallbackMessages :
    Constructed /\ addPointCloud2Message(topic, pointCloud)

NextFallback == AddFallbackPointCloud2Messages
SpecFallback == Init /\ [][NextFallback]_vars


-----------------------------------------------------------------------------
(* Renderer.ts: the animation-frame loop *)

MaxTime == 2

\* variant: the endFrame event is emitted before the scene is drawn
frameHandlerEndingEarly(lg, time) ==
  Emit(Emit(Emit(Emit(Emit(Emit(lg, "startFrame", time),
                           "frameAxes.startFrame", time),
                      "markers.startFrame", time),
                 "endFrame", time),
            "gl.clear", time),
       "gl.render", time)

\* frameHandler(currentTime): what it emits and calls, in order
frameHandler(lg, time) ==
  Emit(Emit(Emit(Emit(Emit(Emit(lg, "startFrame", time),
                           "frameAxes.startFrame", time),
                      "markers.startFrame", time),
                 "gl.clear", time),
            "gl.render", time),
       "endFrame", time)

\* the host runs one registered callback
AnimationFrame ==
  /\ rafQueue > 0
  /\ Len(log) + 7 <= MaxLog
  /\ rafQueue' = (rafQueue - 1) + 1
  /\ IF currentTime # 0
     THEN /\ log' = frameHandler(Emit(log, "requestAnimationFrame", 0), currentTime)
          /\ fixedFrameId' = "base_link"
          /\ renderFrameId' = "base_link"
     ELSE /\ log' = Emit(log, "requestAnimationFrame", 0)
          /\ UNCHANGED <<fixedFrameId, renderFrameId>>
  /\ UNCHANGED <<currentTime, construction, pcVars, selectVars, sceneVars, frameVars,
                 markerVars>>

Disposed == \E i \in DOMAIN log : log[i].event = "dispose"

\* Renderer.dispose(): disposes the collections and the WebGL context
Dispose ==
  /\ Constructed
  /\ ~Disposed
  /\ Len(log) + 1 <= MaxLog
  /\ log' = Emit(log, "dispose", 0)
  /\ UNCHANGED <<rafQueue, currentTime, fixedFrameId, renderFrameId, construction,
                 pcVars, selectVars, sceneVars, frameVars, markerVars>>

\* the panel assigns renderer.currentTime
SetCurrentTime ==
  \E t \in 1..MaxTime :
    /\ Constructed
    /\ currentTime' = t
    /\ UNCHANGED <<rafQueue, fixedFrameId, renderFrameId, log, construction, pcVars,
                   selectVars, sceneVars, frameVars, markerVars>>

NextRenderer == AnimationFrame \/ Dispose \/ SetCurrentTime
SpecRenderer == Init /\ [][NextRenderer]_vars

\* Ticks in which a listener or a collection throws: the frame stops at the call
\* that threw, the 1st (a startFrame listener) or the 3rd (markers.startFrame)
ThrowPoints == {1, 3}

\* frameHandler(currentTime) up to the call that throws; 0 when none does
frameHandlerUntil(lg, time, throwsAt) ==
  IF throwsAt = 0 THEN frameHandler(lg, time)
  ELSE lg \o SubSeq(frameHandler(<< >>, time), 1, throwsAt)

\* variant: the next tick is requested after the frame has run
animationFrameRunningFirst(pending, lg, time, throwsAt) ==
  IF time = 0
  THEN [rafQueue |-> pending + 1, log |-> Emit(lg, "requestAnimationFrame", 0),
        frameIds |-> FALSE]
  ELSE IF throwsAt = 0
  THEN [rafQueue |-> pending + 1,
        log |-> Emit(frameHandler(lg, time), "requestAnimationFrame", 0),
        frameIds |-> TRUE]
  ELSE [rafQueue |-> pending, log |-> frameHandlerUntil(lg, time, throwsAt),
        frameIds |-> throwsAt > 1]

\* animationFrame with pending other callbacks registered: it registers itself,
\* then runs frameHandler when there is a current time; frameIds tells whether
\* frameHandler got as far as assigning the frame ids
animationFrame(pending, lg, time, throwsAt) ==
  LET registered == pending + 1
      requested == Emit(lg, "requestAnimationFrame", 0)
  IN IF time = 0
     THEN [rafQueue |-> registered, log |-> requested, frameIds |-> FALSE]
     ELSE [rafQueue |-> registered, log |-> frameHandlerUntil(requested, time, throwsAt),
           frameIds |-> throwsAt # 1]

\* the host runs one registered callback; a callee of the frame may throw
Tick ==
  \E throwsAt \in {0} \cup ThrowPoints :
    LET out == animationFrame(rafQueue - 1, log, currentTime, throwsAt)
    IN /\ rafQueue > 0
       /\ Len(log) + 7 <= MaxLog
       /\ throwsAt # 0 => currentTime # 0
       /\ rafQueue' = out.rafQueue
       /\ log' = out.log
       /\ fixedFrameId' = IF out.frameIds THEN "base_link" ELSE fixedFrameId
       /\ renderFrameId' = IF out.frameIds THEN "base_link" ELSE renderFrameId
       /\ UNCHANGED <<currentTime, construction, pcVars, selectVars, sceneVars, frameVars,
                      markerVars>>

NextTicks == Tick \/ Dispose \/ SetCurrentTime
SpecTicks == Init /\ [][NextTicks]_vars

\* The frame ids between and within ticks. The calls of frameHandler that may see
\* them are numbered as its events: 1 the startFrame listeners, 2 frameAxes.startFrame,
\* 3 markers.startFrame
CollectionCalls == {2, 3}
FrameIds(fixed, render) == [fixedFrameId |-> fixed, renderFrameId |-> render]

\* variant: the frame ids are assigned after the collections have started the frame
frameIdsAfterCollections(fixed, render, calls) ==
  IF calls >= 3 THEN FrameIds("base_link", "base_link") ELSE FrameIds(fixed, render)

\* the frame ids once `calls` calls of frameHandler have returned: the assignment
\* follows the startFrame event and precedes the collections
frameIdsAfter(fixed, render, calls) ==
  IF calls >= 1 THEN FrameIds("base_link", "base_link") ELSE FrameIds(fixed, render)

\* the panel (or any holder of the renderer) assigns the public frame ids
AssignedFrameIds == {"map", Undefined}
SetFrameIds ==
  \E fixed \in AssignedFrameIds, render \in AssignedFrameIds :
    /\ Constructed
    /\ fixedFrameId' = fixed
    /\ renderFrameId' = render
    /\ result' = [op |-> "assign"]
    /\ UNCHANGED <<rafQueue, currentTime, log, construction, renderer, pointCloudsByTopic,
                   selectVars, sceneVars, frameVars, markerVars>>

\* one tick, recording the frame ids that each collection call of the frame saw
ObservedTick ==
  \E throwsAt \in {0} \cup ThrowPoints :
    LET out == animationFrame(rafQueue - 1, log, currentTime, throwsAt)
        reached == IF currentTime = 0 THEN 0 ELSE IF throwsAt = 0 THEN 6 ELSE throwsAt
        returned == IF throwsAt = 0 THEN reached ELSE throwsAt - 1
        after == frameIdsAfter(fixedFrameId, renderFrameId, returned)
    IN /\ rafQueue > 0
       /\ Len(log) + 7 <= MaxLog
       /\ throwsAt # 0 => currentTime # 0
       /\ rafQueue' = out.rafQueue
       /\ log' = out.log
       /\ fixedFrameId' = after.fixedFrameId
       /\ renderFrameId' = after.renderFrameId
       /\ result' = [op |-> "tick",
                     executed |-> reached = 6,
                     before |-> FrameIds(fixedFrameId, renderFrameId),
                     seen |-> [call \in CollectionCalls \cap 1..reached |->
                                 frameIdsAfter(fixedFrameId, renderFrameId, call - 1)]]
       /\ UNCHANGED <<currentTime, construction, renderer, pointCloudsByTopic, selectVars,
                      sceneVars, frameVars, markerVars>>

NextFrameIds == ObservedTick \/ SetFrameIds \/ SetCurrentTime
SpecFrameIds == Init /\ [][NextFrameIds]_vars

-----------------------------------------------------------------------------
(* Transforms and the poses of the point clouds *)

TF(child, parent, t, transform) ==
  [header |-> [stamp |-> [sec |-> 0, nsec |-> t], frame_id |-> parent],
   child_frame_id |-> child, transform |-> transform]

\* Renderer.addTransformMessage: FrameAxes adds the sample to the transform tree
addTransformMessage(tf) ==
  /\ transformTree' = addTransform(transformTree, tf.child_frame_id, tf.header.frame_id,
                                   rosTimeToNanoSec(tf.header.stamp), tf.transform)
  /\ result' = [op |-> "addTransformMessage", tf |-> tf,
                before |-> HistoryOf(transformTree, <<tf.child_frame_id, tf.header.frame_id>>)]
  /\ UNCHANGED <<renderer, pointCloudsByTopic, rendererVars, selectVars, sceneVars,
                 markerVars>>

\* samples of two edges at every time, and one that gives base_link another parent
TFs ==
  { TF(edge[1], edge[2], t, v) :
      edge \in { <<"odom", "map">>, <<"base_link", "odom">> },
      t \in 1..MaxTime, v \in {"a", "b"} }
  \cup { TF("base_link", "map", 1, "a") }

AddTransformMessage ==
  \E tf \in TFs :
    Constructed /\ addTransformMessage(tf)

NextTransforms == AddTransformMessage
SpecTransforms == Init /\ [][NextTransforms]_vars

\* a lookup on an edge of the tree, at a time inside or outside its history
LookupTransform ==
  \E edge \in DOMAIN transformTree.histories, time \in 0..(MaxTime + 1) :
    /\ Constructed
    /\ result' = [op |-> "lookup", edge |-> edge, time |-> time,
                  found |-> Lookup(transformTree.histories[edge], time)]
    /\ UNCHANGED <<renderer, pointCloudsByTopic, rendererVars, selectVars, sceneVars,
                   frameVars, markerVars>>

NextLookups == AddTransformMessage \/ LookupTransform
SpecLookups == Init /\ [][NextLookups]_vars

\* point clouds of one point in base_link and in map
FramedMessages == { PointCloud2(Stamped(st), WellFormed(2, 1), BaseFields) : st \in 1..2 }

\* map and base_link get connected
FewTFs == { TF("base_link", "map", 1, "a") }

AddFramedPointCloud2Messages ==
  \E topic \in ManyTopics, pointCloud \in FramedMessages :
    Constructed /\ addPointCloud2Message(topic, pointCloud)

AddFewTransformMessages ==
  \E tf \in FewTFs :
    Constructed /\ addTransformMessage(tf)

\* pointClouds.startFrame(renderer.currentTime)
StartFramePointClouds ==
  /\ Constructed
  /\ currentTime # 0
  /\ startFrame(currentTime)
  /\ UNCHANGED <<transformTree, rendererVars, selectVars, sceneVars, markerVars>>

\* the first tick that has a current time (the later ones set the same frame ids)
FirstFrame ==
  /\ currentTime # 0
  /\ fixedFrameId = Undefined
  /\ AnimationFrame

NextFrames ==
  \/ AddFramedPointCloud2Messages
  \/ AddFewTransformMessages
  \/ StartFramePointClouds
  \/ FirstFrame
  \/ SetCurrentTime
SpecFrames == Init /\ [][NextFrames]_vars

-----------------------------------------------------------------------------
(* autoSelectColorField on its own *)

FieldNames == COLOR_FIELDS \cup INTENSITY_FIELDS \cup {"x", "w"}
RECURSIVE NameLists(_)
NameLists(n) ==
  IF n = 0 THEN { << >> }
  ELSE NameLists(n - 1)
       \cup { Append(l, m) : l \in { k \in NameLists(n - 1) : Len(k) = n - 1 },
                             m \in FieldNames }

AutoSelect ==
  \E l \in NameLists(MaxFields) :
    /\ fields' = [i \in 1..Len(l) |-> F(l[i], 0, "UINT8")]
    /\ output' = autoSelectColorField(DefaultSettings, fields')
    /\ UNCHANGED <<pcVars, rendererVars, sceneVars, frameVars, markerVars>>

NextSelect == AutoSelect
SpecSelect == Init /\ [][NextSelect]_vars


-----------------------------------------------------------------------------
(* RenderableMarker.ts and RenderableSphere.ts *)

Red == [r |-> 1, g |-> 0, b |-> 0, a |-> 1]
Blue == [r |-> 0, g |-> 0, b |-> 1, a |-> 1]

MarkerTopics == {"/markers"}
Markers ==
  { [header |-> h, ns |-> "", id |-> i, pose |-> "pose", scale |-> [x |-> 1, y |-> 1, z |-> 1],
     color |-> c] : h \in {Stamped(1)}, i \in 0..MaxMarkerId, c \in {Red, Blue} }

\* markerId.getMarkerId
getMarkerId(topic, ns, id) == <<topic, ns, id>>

\* color.rgbaEqual
rgbaEqual(a, b) == a.r = b.r /\ a.g = b.g /\ a.b = b.b /\ a.a = b.a

\* materials.standardMaterial / releaseStandardMaterial: the material of a marker is
\* identified by the marker's colour
StandardColorId(color) == [material |-> "StandardColor", color |-> color]
standardMaterial(marker, cache) == acquire(cache, StandardColorId(marker.color))
releaseStandardMaterial(marker, cache) == release(cache, StandardColorId(marker.color))

\* Renderer.markerWorldPosition: the world position of the registered renderable
markerWorldPosition(registry, markerId) ==
  IF markerId \in DOMAIN registry
  THEN [of |-> registry[markerId], position |-> "matrixWorld * (0, 0, 0)"]
  ELSE [of |-> 0, position |-> Undefined]

\* RenderableMarker.constructor
RenderableMarker(topic, marker) ==
  [name |-> getMarkerId(topic, marker.ns, marker.id),
   topic |-> topic,
   marker |-> marker,
   userData |-> [pose |-> marker.pose, srcTime |-> rosTimeToNanoSec(marker.header.stamp)]]

\* variant: a marker older than the stored one is ignored
RenderableMarkerUpdateKeepingNewest(this, marker) ==
  IF rosTimeToNanoSec(marker.header.stamp) < this.userData.srcTime THEN this
  ELSE [this EXCEPT !.marker = marker,
                    !.userData = [pose |-> marker.pose,
                                  srcTime |-> rosTimeToNanoSec(marker.header.stamp)]]

\* RenderableMarker.update
RenderableMarkerUpdate(this, marker) ==
  [this EXCEPT !.marker = marker,
               !.userData = [pose |-> marker.pose,
                             srcTime |-> rosTimeToNanoSec(marker.header.stamp)]]

\* the static RenderableSphere.geometry(lod)
geometry(cached, level, id) ==
  IF cached.geometry = 0 \/ level # cached.lod
  THEN [lod |-> level, geometry |-> id]
  ELSE cached

\* RenderableSphere.update: the base class stores the marker first, then the colours
\* of the argument and of the stored marker are compared
RenderableSphereUpdate(this, cache, marker) ==
  LET this1 == RenderableMarkerUpdate(this, marker)
      this2 == [this1 EXCEPT !.scale = marker.scale]
  IN IF ~rgbaEqual(marker.color, this1.marker.color)
     THEN [this |-> [this2 EXCEPT !.mesh.material = StandardColorId(marker.color)],
           materialCache |-> standardMaterial(marker, releaseStandardMaterial(marker, cache))]
     ELSE [this |-> this2, materialCache |-> cache]

\* new RenderableSphere(topic, marker, renderer)
newSphere(topic, marker) ==
  LET id == nextId
      base == RenderableMarker(topic, marker)
      cache1 == standardMaterial(marker, materialCache)
      cached == geometry(sphereGeometry, lod, id + 1)
      this == [k \in DOMAIN base \cup {"mesh", "scale", "disposed"} |->
                 IF k = "mesh" THEN [geometry |-> cached.geometry,
                                     material |-> StandardColorId(marker.color)]
                 ELSE IF k = "scale" THEN [x |-> 1, y |-> 1, z |-> 1]
                 ELSE IF k = "disposed" THEN FALSE
                 ELSE base[k]]
      out == RenderableSphereUpdate(this, cache1, marker)
  IN /\ Constructed
     /\ renderables' = MapSet(renderables, base.name, id)
     /\ sphereGeometry' = cached
     /\ nextId' = IF cached = sphereGeometry THEN id + 1 ELSE id + 2
     /\ spheres' = MapSet(spheres, id, out.this)
     /\ materialCache' = out.materialCache
     /\ UNCHANGED <<lod, children, disposed, pcVars, rendererVars, selectVars, frameVars>>

NewSphere ==
  \E topic \in MarkerTopics, marker \in Markers :
    Cardinality(DOMAIN spheres) < MaxSpheres /\ newSphere(topic, marker)

\* sphere.update(marker), for a marker of the same marker id
updateSphere(id, marker) ==
  LET out == RenderableSphereUpdate(spheres[id], materialCache, marker)
  IN /\ ~spheres[id].disposed
     /\ getMarkerId(spheres[id].topic, marker.ns, marker.id) = spheres[id].name
     /\ spheres' = MapSet(spheres, id, out.this)
     /\ materialCache' = out.materialCache
     /\ result' = [op |-> "update", id |-> id, marker |-> marker,
                   before |-> spheres[id].userData.srcTime]
     /\ UNCHANGED <<renderables, sphereGeometry, lod, children, nextId, disposed, renderer,
                    pointCloudsByTopic, rendererVars, selectVars, frameVars>>

UpdateSphere == \E id \in DOMAIN spheres, marker \in Markers : updateSphere(id, marker)

\* sphere.dispose(): the base class's dispose is not called
DisposeSphere ==
  \E id \in DOMAIN spheres :
    /\ ~spheres[id].disposed
    /\ materialCache' = releaseStandardMaterial(spheres[id].marker, materialCache)
    /\ spheres' = MapSet(spheres, id, [spheres[id] EXCEPT !.disposed = TRUE])
    /\ UNCHANGED <<renderables, sphereGeometry, lod, children, nextId, disposed, pcVars,
                   rendererVars, selectVars, frameVars>>

NextMarkers == NewSphere \/ UpdateSphere \/ DisposeSphere
SpecMarkers == Init /\ [][NextMarkers]_vars

\* Calls of RenderableSphere.geometry with any detail level; the result records the
\* geometry returned and the one the first call of each level returned
DetailLevels == {"Low", "Medium", "High"}
FirstGeometries == IF result.op = "geometry" THEN result.firsts ELSE << >>

RequestGeometry ==
  \E level \in DetailLevels :
    LET cached == geometry(sphereGeometry, level, nextId)
    IN /\ nextId <= MaxObjects
       /\ sphereGeometry' = cached
       /\ nextId' = IF cached = sphereGeometry THEN nextId ELSE nextId + 1
       /\ result' = [op |-> "geometry", level |-> level, geometry |-> cached.geometry,
                     firsts |-> IF level \in DOMAIN FirstGeometries THEN FirstGeometries
                                ELSE MapSet(FirstGeometries, level, cached.geometry)]
       /\ UNCHANGED <<renderer, pointCloudsByTopic, rendererVars, selectVars, children,
                      materialCache, disposed, frameVars, spheres, renderables, lod>>

NextGeometry == RequestGeometry
SpecGeometry == Init /\ [][NextGeometry]_vars

\* Messages that arrive in any order of their stamps: point clouds of one shape,
\* one of them rejected, and one marker that is created and updated
StampedMessages ==
  { PointCloud2(h, p, BaseFields) :
      h \in Headers, p \in {BasePayload, [BasePayload EXCEPT !.is_bigendian = TRUE]} }
StampedMarkers ==
  { [header |-> h, ns |-> "", id |-> 0, pose |-> h.frame_id,
     scale |-> [x |-> 1, y |-> 1, z |-> 1], color |-> c] : h \in Headers, c \in {Red} }

AddStampedPointCloud2Messages ==
  \E topic \in Topics, pointCloud \in StampedMessages :
    Constructed /\ addPointCloud2Message(topic, pointCloud)

NewStampedSphere ==
  \E topic \in MarkerTopics, marker \in StampedMarkers :
    spheres = << >> /\ newSphere(topic, marker)

UpdateStampedSphere ==
  \E id \in DOMAIN spheres, marker \in StampedMarkers : updateSphere(id, marker)

NextLatest == AddStampedPointCloud2Messages \/ NewStampedSphere \/ UpdateStampedSphere
SpecLatest == Init /\ [][NextLatest]_vars


-----------------------------------------------------------------------------
(* Vocabulary of the properties *)

Added == result.op = "addPointCloud2Message"
Rejected == Added /\ result.message # ""
Accepted == Added /\ result.message = ""
Message == result.pointCloud

DiagnosticsIn(rend, topic, errorId) ==
  IF HasProp(rend, "layerErrors")
  THEN { e \in rend.layerErrors : e.topic = topic /\ e.errorId = errorId }
  ELSE {}
Diagnostics(topic, errorId) == DiagnosticsIn(renderer, topic, errorId)

Declares(pc, name) == \E i \in DOMAIN pc.fields : pc.fields[i].name = name
FieldNamed(pc, name) ==
  pc.fields[CHOOSE i \in DOMAIN pc.fields : pc.fields[i].name = name]
PositionAxes == <<"x", "y", "z">>
DeclaredAxes(pc) == { a \in 1..3 : Declares(pc, PositionAxes[a]) }
ValidAxes(pc) ==
  \A i \in DOMAIN pc.fields :
    pc.fields[i].name \in {"x", "y", "z"} => getReader(pc.fields[i], pc.point_step) # NoReader

IsMultiple(n, step) == \E k \in 0..n : n = k * step

\* the payload invariant of the data model
PayloadInvariant(pc) ==
  /\ ~pc.is_bigendian
  /\ Len(pc.fields) > 0
  /\ IsMultiple(Len(pc.data), pc.point_step)
  /\ Len(pc.data) >= pc.height * pc.row_step
  /\ pc.width * pc.point_step <= pc.row_step

\* byte of point i (from 0) that the field called name decodes
Decoded(pc, name, i) == pc.data[i * pc.point_step + FieldNamed(pc, name).offset + 1]

Selection(settings) ==
  [colorField |-> IF HasProp(settings, "colorField") THEN settings.colorField ELSE Undefined,
   colorMode |-> settings.colorMode, rgbByteOrder |-> settings.rgbByteOrder]

-----------------------------------------------------------------------------
(* Properties *)

\* C1: after Renderer.dispose() no further tick is scheduled and no frame runs: no
\* requestAnimationFrame call and no startFrame or endFrame event follows the dispose.
C1_NoTickAfterDispose ==
  \A i, j \in DOMAIN log :
    (i < j /\ log[i].event = "dispose")
      => log[j].event \notin {"requestAnimationFrame", "startFrame", "endFrame"}

\* C2: for a malformed or unsupported payload addPointCloud2Message does not throw:
\* it records an INVALID_POINT_CLOUD diagnostic for the topic and returns.
C2_MalformedNeverThrows ==
  (Added /\ (~PayloadInvariant(Message) \/ ~ValidAxes(Message)
             \/ Cardinality(DeclaredAxes(Message)) < 2))
    => (~result.threw /\ Diagnostics(result.topic, INVALID_POINT_CLOUD) # {})

\* C3: a message rejected on a known topic leaves the topic's geometry as it was:
\* same point count, same position and colour contents.
C3_RejectedKeepsGeometry ==
  [][\A t \in DOMAIN pointCloudsByTopic :
       (Rejected' /\ result'.topic = t)
         => pointCloudsByTopic'[t].geometry = pointCloudsByTopic[t].geometry]_vars

C3_Witness ==
  /\ Rejected
  /\ Len(pointCloudsByTopic[result.topic].geometry.position) > 0

\* C4: a rejected message is skipped entirely: the stored last message and the
\* source timestamp keep the values they had before it arrived.
C4_RejectedKeepsStoredMessage ==
  [][\A t \in DOMAIN pointCloudsByTopic :
       (Rejected' /\ result'.topic = t)
         => /\ pointCloudsByTopic'[t].pointCloud = pointCloudsByTopic[t].pointCloud
            /\ pointCloudsByTopic'[t].srcTime = pointCloudsByTopic[t].srcTime]_vars

C6_PayloadInvariant ==
  [][Added' =>
       /\ Accepted' => PayloadInvariant(result'.pointCloud)
       /\ ~PayloadInvariant(result'.pointCloud) =>
            /\ Rejected'
            /\ Cardinality({ e \in (IF HasProp(renderer', "layerErrors")
                                    THEN renderer'.layerErrors ELSE {}) :
                               e.topic = result'.topic
                               /\ e.errorId = INVALID_POINT_CLOUD }) = 1
            /\ pointCloudsByTopic'[result'.topic].geometry =
                 (IF result'.topic \in DOMAIN pointCloudsByTopic
                  THEN pointCloudsByTopic[result'.topic].geometry
                  ELSE NewGeometry)]_vars

\* C7: a message passing the structural checks is rejected with an
\* INVALID_POINT_CLOUD diagnostic when it declares fewer than two of x, y, z, and is
\* accepted when it declares two or three of them, each with a valid reader.
C7_TwoPositionFields ==
  (Added /\ StructuralError(Message) = "") =>
    IF Cardinality(DeclaredAxes(Message)) < 2
    THEN Rejected /\ Diagnostics(result.topic, INVALID_POINT_CLOUD) # {}
    ELSE ValidAxes(Message) => Accepted

\* C8: in an accepted message that declares exactly two of x, y, z the missing axis
\* is written as 0 for every point and the two others with their decoded values.
C8_MissingAxisIsZero ==
  (Accepted /\ Cardinality(DeclaredAxes(Message)) = 2) =>
    LET position == pointCloudsByTopic[result.topic].geometry.position
    IN /\ Len(position) = Len(Message.data) \div Message.point_step
       /\ \A i \in DOMAIN position, a \in 1..3 :
            position[i][a] = IF a \in DeclaredAxes(Message)
                             THEN Decoded(Message, PositionAxes[a], i - 1)
                             ELSE 0

C8_Witness ==
  /\ Accepted
  /\ DeclaredAxes(Message) = {1, 2}
  /\ \E i \in DOMAIN pointCloudsByTopic[result.topic].geometry.position :
       /\ pointCloudsByTopic[result.topic].geometry.position[i][1] # 0
       /\ pointCloudsByTopic[result.topic].geometry.position[i][3] = 0

\* C9: auto-selection takes the first field named as a composite colour, else the
\* first intensity field, else the first field, else nothing; the composite name
\* fixes colour mode and byte order, any other selection uses the Turbo mode.
FirstIndex(names) ==
  LET hits == { i \in DOMAIN fields : fields[i].name \in names }
  IN IF hits = {} THEN 0 ELSE CHOOSE i \in hits : \A j \in hits : i <= j
C9_AutoSelection ==
  LET c == FirstIndex(COLOR_FIELDS)
      n == FirstIndex(INTENSITY_FIELDS)
      name == output.colorField
  IN IF c > 0
     THEN /\ HasProp(output, "colorField") /\ name = fields[c].name
          /\ name = "rgb" => output.colorMode = "Rgb" /\ output.rgbByteOrder = "rgba"
          /\ name \in {"rgba", "color"} =>
               output.colorMode = "Rgba" /\ output.rgbByteOrder = "rgba"
          /\ name = "bgr" => output.colorMode = "Rgb" /\ output.rgbByteOrder = "bgra"
          /\ name = "bgra" => output.colorMode = "Rgba" /\ output.rgbByteOrder = "bgra"
          /\ name = "abgr" => output.colorMode = "Rgba" /\ output.rgbByteOrder = "abgr"
     ELSE IF n > 0
     THEN /\ HasProp(output, "colorField") /\ name = fields[n].name
          /\ output.colorMode = DEFAULT_COLOR_MODE
     ELSE IF Len(fields) > 0
     THEN /\ HasProp(output, "colorField") /\ name = fields[1].name
          /\ output.colorMode = DEFAULT_COLOR_MODE
     ELSE ~HasProp(output, "colorField")

C9_Witness ==
  /\ Len(fields) = 2
  /\ fields[1].name = "intensity"
  /\ fields[2].name = "color"
  /\ output.colorField = "color"
  /\ output.colorMode = "Rgba"

\* C10: the colour field selection is made once, by the topic's first message; no
\* later message changes colorField, colorMode or rgbByteOrder.
C10_SelectionSticky ==
  [][\A t \in DOMAIN pointCloudsByTopic' :
       Selection(pointCloudsByTopic'[t].settings) =
         IF t \in DOMAIN pointCloudsByTopic
         THEN Selection(pointCloudsByTopic[t].settings)
         ELSE Selection(autoSelectColorField(DefaultSettings, result'.pointCloud.fields))]_vars

C10_Witness ==
  \E t \in DOMAIN pointCloudsByTopic :
    /\ Accepted /\ result.topic = t
    /\ Selection(pointCloudsByTopic[t].settings) #
         Selection(autoSelectColorField(DefaultSettings, pointCloudsByTopic[t].pointCloud.fields))


\* C11: addPointCloud2Message keeps one renderable per topic seen, attached once to
\* the collection; a known topic keeps the renderable and the geometry object its
\* first message created, whatever the later messages' point counts.
ObjectIds(map) == { map[t].id : t \in DOMAIN map }
C11_RenderableReuse ==
  [][result'.op = "addPointCloud2Message" =>
       LET t == result'.topic
       IN /\ DOMAIN pointCloudsByTopic' = DOMAIN pointCloudsByTopic \cup {t}
          /\ \A u \in DOMAIN pointCloudsByTopic :
               /\ pointCloudsByTopic'[u].id = pointCloudsByTopic[u].id
               /\ pointCloudsByTopic'[u].geometryId = pointCloudsByTopic[u].geometryId
          /\ t \notin DOMAIN pointCloudsByTopic =>
               /\ pointCloudsByTopic'[t].id >= nextId
               /\ pointCloudsByTopic'[t].geometryId >= nextId
               /\ nextId' > pointCloudsByTopic'[t].geometryId
          /\ Len(children') = Cardinality(DOMAIN pointCloudsByTopic')
          /\ { children'[i] : i \in DOMAIN children' } = ObjectIds(pointCloudsByTopic')
          /\ Cardinality(ObjectIds(pointCloudsByTopic'))
               = Cardinality(DOMAIN pointCloudsByTopic')]_vars

\* the first renderable, created by a message of two points or by a rejected one,
\* has been updated by the one-point message after a second topic appeared
C11_Witness ==
  \E t \in DOMAIN pointCloudsByTopic :
    /\ Accepted /\ result.topic = t
    /\ Cardinality(DOMAIN pointCloudsByTopic) = 2
    /\ pointCloudsByTopic[t].id = 1
    /\ pointCloudsByTopic[t].settings.colorMode = DEFAULT_COLOR_MODE
    /\ Len(pointCloudsByTopic[t].geometry.position) = 1


\* C12: no material id is released more often than it was acquired, and once every
\* renderable has been disposed each id has been released exactly as often as acquired.
MaterialIds == DOMAIN materialCache.acquired \cup DOMAIN materialCache.released
AllDisposed ==
  /\ \A id \in DOMAIN spheres : spheres[id].disposed
  /\ pointCloudsByTopic = << >>
C12_CacheBalanced ==
  /\ \A k \in MaterialIds :
       Count(materialCache.released, k) <= Count(materialCache.acquired, k)
  /\ AllDisposed =>
       \A k \in MaterialIds :
         Count(materialCache.released, k) = Count(materialCache.acquired, k)


\* the step is a call of PointClouds.startFrame
StartFrameStep == result'.op = "startFrame" /\ UNCHANGED rendererVars

AttemptOf(attempts, t) == { i \in DOMAIN attempts : attempts[i].topic = t }
C14_OneAttemptEach ==
  [][StartFrameStep =>
       IF renderFrameId = Undefined \/ fixedFrameId = Undefined
       THEN result'.attempts = << >> /\ renderer' = renderer
       ELSE /\ ~result'.threw
            /\ \A t \in DOMAIN pointCloudsByTopic :
                 /\ Cardinality(AttemptOf(result'.attempts, t)) = 1
                 /\ \A i \in AttemptOf(result'.attempts, t) :
                      /\ result'.attempts[i].frameId
                           = pointCloudsByTopic[t].pointCloud.header.frame_id
                      /\ result'.attempts[i].srcTime = pointCloudsByTopic[t].srcTime
                      /\ result'.attempts[i].currentTime = currentTime
                      /\ IF result'.attempts[i].updated
                         THEN DiagnosticsIn(renderer', t, MISSING_TRANSFORM)
                                = DiagnosticsIn(renderer, t, MISSING_TRANSFORM)
                         ELSE DiagnosticsIn(renderer', t, MISSING_TRANSFORM) # {}]_vars

\* what frameHandler emits and calls, in the order of one frame
FrameEvents ==
  << "startFrame", "frameAxes.startFrame", "markers.startFrame", "gl.clear", "gl.render",
     "endFrame" >>

\* lg[i .. i+5] is one whole frame, every entry with the time of the first
IsFrameAt(lg, i) ==
  /\ i >= 1
  /\ i + 5 <= Len(lg)
  /\ \A k \in 1..6 : lg[i + k - 1] = [event |-> FrameEvents[k], time |-> lg[i].time]

C16_NoPartialRenderer ==
  ~construction.isWebGL2
    => /\ construction.threw
       /\ construction.inputHandlers = {}
       /\ rafQueue = 0
       /\ log = << >>

C16_Witness == ~construction.isWebGL2 /\ construction.threw

\* the values the field called name has in the points of the message
FieldValues(pc, name) ==
  { Decoded(pc, name, i) : i \in 0..(Len(pc.data) \div pc.point_step - 1) }
Least(values) == CHOOSE v \in values : \A w \in values : v <= w
Greatest(values) == CHOOSE v \in values : \A w \in values : v >= w

\* C17: for an accepted message every colour is converted with the range
\* (min, max) of the colour field's values over all points of the message, except
\* that a bound pinned in the settings replaces the bound found in the data,
\* whatever the data and whether or not the other bound is pinned
C17_ColorDomain ==
  (Accepted /\ HasProp(pointCloudsByTopic[result.topic].settings, "colorField")
            /\ Declares(Message, pointCloudsByTopic[result.topic].settings.colorField))
    => LET renderable == pointCloudsByTopic[result.topic]
           settings == renderable.settings
           values == FieldValues(Message, settings.colorField)
       IN \A i \in DOMAIN renderable.geometry.color :
            /\ renderable.geometry.color[i].minValue
                 = IF HasProp(settings, "minValue") THEN settings.minValue
                   ELSE Least(values)
            /\ renderable.geometry.color[i].maxValue
                 = IF HasProp(settings, "maxValue") THEN settings.maxValue
                   ELSE Greatest(values)

C17_Witness ==
  /\ Accepted
  /\ Message.data = ColorData(<<0, 5, 10>>)
  /\ ~HasProp(pointCloudsByTopic[result.topic].settings, "minValue")
  /\ ~HasProp(pointCloudsByTopic[result.topic].settings, "maxValue")
  /\ pointCloudsByTopic[result.topic].settings.colorField = "intensity"
  /\ \A i \in 1..3 :
       /\ pointCloudsByTopic[result.topic].geometry.color[i].minValue = 0
       /\ pointCloudsByTopic[result.topic].geometry.color[i].maxValue = 10

\* a cloud converted with one bound pinned and the other found in the data
C17_OnePinned ==
  /\ Accepted
  /\ Message.data = ColorData(<<5, 0, 10>>)
  /\ HasProp(pointCloudsByTopic[result.topic].settings, "minValue")
  /\ ~HasProp(pointCloudsByTopic[result.topic].settings, "maxValue")
  /\ pointCloudsByTopic[result.topic].geometry.color[1].minValue = 7
  /\ pointCloudsByTopic[result.topic].geometry.color[1].maxValue = 10

\* C18: an accepted message leaves the geometry with exactly
\* data.length / point_step points, every one of them written, point i from the
\* bytes at i * point_step, whatever width, height and row_step say
C18_PointCount ==
  Accepted =>
    LET written == pointCloudsByTopic[result.topic].geometry
        pointCount == Len(Message.data) \div Message.point_step
    IN /\ Len(written.position) = pointCount
       /\ Len(written.color) = pointCount
       /\ \A i \in 0..(pointCount - 1) :
            /\ written.color[i + 1] # ZeroColor
            /\ \A a \in DeclaredAxes(Message) :
                 written.position[i + 1][a] = Decoded(Message, PositionAxes[a], i)

C18_Witness ==
  /\ Accepted
  /\ Message.width * Message.height = 1
  /\ Message.row_step = 2
  /\ Len(pointCloudsByTopic[result.topic].geometry.position) = 2
  /\ pointCloudsByTopic[result.topic].geometry.position[2]
       = << Message.data[3], Message.data[4], Message.data[3] >>

\* number of renderables of the map whose points material has the id k
Holders(map, k) == Cardinality({ t \in DOMAIN map : PointsMaterialId(map[t].settings) = k })

\* C19: PointClouds.dispose() leaves the map and the collection empty, releases the
\* points material once and disposes the geometry and the picking material once per
\* renderable that existed, and acquires nothing; a message on a topic that has no
\* renderable, seen before or not, gets a renderable made of new objects, with the
\* material acquired again and the colour field selected from this message
C19_Dispose ==
  [][/\ result'.op = "dispose" =>
          /\ pointCloudsByTopic' = << >>
          /\ children' = << >>
          /\ materialCache'.acquired = materialCache.acquired
          /\ \A k \in DOMAIN materialCache'.released :
               Count(materialCache'.released, k)
                 = Count(materialCache.released, k) + Holders(pointCloudsByTopic, k)
          /\ \A t \in DOMAIN pointCloudsByTopic :
               /\ PointsMaterialId(pointCloudsByTopic[t].settings)
                    \in DOMAIN materialCache'.released
               /\ Count(disposed', GeometryOf(pointCloudsByTopic[t])) = 1
               /\ Count(disposed', PickingMaterialOf(pointCloudsByTopic[t])) = 1
          /\ \A o \in DOMAIN disposed' : disposed'[o] = 1
     /\ (result'.op = "addPointCloud2Message"
           /\ result'.topic \notin DOMAIN pointCloudsByTopic) =>
          LET fresh == pointCloudsByTopic'[result'.topic]
          IN /\ \A o \in DOMAIN disposed :
                  o.id \notin {fresh.id, fresh.geometryId, fresh.pickingMaterialId}
             /\ disposed' = disposed
             /\ Count(materialCache'.acquired, PointsMaterialId(fresh.settings))
                  = Count(materialCache.acquired, PointsMaterialId(fresh.settings)) + 1
             /\ materialCache'.released = materialCache.released
             /\ Selection(fresh.settings)
                  = Selection(autoSelectColorField(DefaultSettings, result'.pointCloud.fields))
             /\ children' = Append(children, fresh.id)]_vars

\* a topic whose earlier geometry was disposed has a renderable again, made from a
\* message that selects another colour mode than the flat default
C19_Witness ==
  /\ Accepted
  /\ Cardinality(DOMAIN disposed) = 4
  /\ \E o \in DOMAIN disposed :
       /\ o.name = result.topic \o ":PointCloud2:geometry"
       /\ o.id # pointCloudsByTopic[result.topic].geometryId
  /\ pointCloudsByTopic[result.topic].settings.colorMode = "Rgba"
  /\ Count(materialCache.acquired, PointsMaterialId(pointCloudsByTopic[result.topic].settings))
       > Count(materialCache.released,
               PointsMaterialId(pointCloudsByTopic[result.topic].settings))

Times(history) == { history[i].time : i \in DOMAIN history }
At(history, time) == { history[i].value : i \in { j \in DOMAIN history : history[j].time = time } }

\* C20: after a transform sample is added its edge's history holds exactly one
\* entry for the sample's timestamp, with the value of this call, also when the
\* timestamp was there before, and every other entry is kept; every edge's history
\* is in strict timestamp order, whatever the order of arrival
C20_IdempotentReAdd ==
  /\ result.op = "addTransformMessage" =>
       LET tf == result.tf
           time == rosTimeToNanoSec(tf.header.stamp)
           history == HistoryOf(transformTree, <<tf.child_frame_id, tf.header.frame_id>>)
       IN /\ Cardinality({ i \in DOMAIN history : history[i].time = time }) = 1
          /\ At(history, time) = {tf.transform}
          /\ Times(history) = Times(result.before) \cup {time}
          /\ \A t \in Times(result.before) \ {time} : At(history, t) = At(result.before, t)
  /\ \A edge \in DOMAIN transformTree.histories :
       \A i, j \in DOMAIN transformTree.histories[edge] :
         i < j => transformTree.histories[edge][i].time < transformTree.histories[edge][j].time

\* a sample replaced the other value its edge had at the same timestamp, in front
\* of a later sample
C20_Witness ==
  /\ result.op = "addTransformMessage"
  /\ Len(result.before) = 2
  /\ At(result.before, rosTimeToNanoSec(result.tf.header.stamp)) = {"a"}
  /\ result.tf.transform = "b"
  /\ result.before[1].time = rosTimeToNanoSec(result.tf.header.stamp)
  /\ Len(HistoryOf(transformTree, <<result.tf.child_frame_id, result.tf.header.frame_id>>)) = 2

\* C21: a lookup before the earliest or after the latest sample of its edge returns
\* the stored transform of that end of the history and says it is out of range; a
\* lookup at the timestamp of a stored sample returns that sample and says exact
C21_Clamping ==
  result.op = "lookup" =>
    LET history == transformTree.histories[result.edge]
        first == history[1]
        last == history[Len(history)]
    IN /\ result.time < first.time =>
            result.found = Found("out of range", first, first)
       /\ result.time > last.time =>
            result.found = Found("out of range", last, last)
       /\ \A i \in DOMAIN history :
            history[i].time = result.time =>
              result.found = Found("exact", history[i], history[i])

\* a lookup after the latest of two samples of different values
C21_Witness ==
  /\ result.op = "lookup"
  /\ Len(transformTree.histories[result.edge]) = 2
  /\ transformTree.histories[result.edge][1].value # transformTree.histories[result.edge][2].value
  /\ result.time > transformTree.histories[result.edge][2].time
  /\ result.found.status = "out of range"
  /\ result.found.lower = transformTree.histories[result.edge][2]

Requests(lg) == Cardinality({ i \in DOMAIN lg : lg[i].event = "requestAnimationFrame" })

\* a step in which the host ran animationFrame
TickStep == Len(log') > Len(log) /\ log'[Len(log) + 1].event # "dispose"

\* C22: until disposal one tick is pending before and after every tick; the tick
\* requests the next one once, before anything of the frame, also when a callee of
\* the frame throws; a tick without a current time emits nothing, assigns no frame
\* id and touches no renderable
C22_OnePending ==
  [][(TickStep /\ ~Disposed) =>
       /\ rafQueue = 1
       /\ rafQueue' = 1
       /\ log'[Len(log) + 1].event = "requestAnimationFrame"
       /\ Requests(log') = Requests(log) + 1
       /\ currentTime = 0 =>
            /\ Len(log') = Len(log) + 1
            /\ UNCHANGED <<fixedFrameId, renderFrameId, pointCloudsByTopic, spheres>>]_vars

\* a frame was cut short by a throwing startFrame listener, and a tick is pending
C22_Witness ==
  /\ ~Disposed
  /\ rafQueue = 1
  /\ Len(log) > 0
  /\ log[Len(log)].event = "startFrame"

\* a step in which update was called on a sphere: none is created or disposed
UpdateStep ==
  /\ DOMAIN spheres' = DOMAIN spheres
  /\ \A id \in DOMAIN spheres : spheres'[id].disposed = spheres[id].disposed
  /\ UNCHANGED <<nextId, renderables>>

Recoloured == { id \in DOMAIN spheres : ~rgbaEqual(spheres'[id].marker.color,
                                                    spheres[id].marker.color) }

\* C23: update with a marker of another colour releases the material of the old
\* colour once and acquires the one of the new colour once, which becomes the mesh's
\* material; update with the same colour acquires and releases nothing
C23_MaterialExchanged ==
  [][UpdateStep =>
       /\ \A id \in Recoloured :
            /\ spheres'[id].mesh.material = StandardColorId(spheres'[id].marker.color)
            /\ Count(materialCache'.released, StandardColorId(spheres[id].marker.color))
                 = Count(materialCache.released, StandardColorId(spheres[id].marker.color)) + 1
            /\ Count(materialCache'.acquired, StandardColorId(spheres'[id].marker.color))
                 = Count(materialCache.acquired, StandardColorId(spheres'[id].marker.color)) + 1
       /\ Recoloured = {} => materialCache' = materialCache]_vars

\* C24: a marker renderable is registered under getMarkerId(topic, ns, id) when it
\* is constructed and stays registered while it is updated; when it is disposed the
\* registry loses the entry of its key and markerWorldPosition(key) is undefined
C24_Registry ==
  [][/\ \A id \in DOMAIN spheres' \ DOMAIN spheres :
          /\ spheres'[id].name = getMarkerId(spheres'[id].topic, spheres'[id].marker.ns,
                                             spheres'[id].marker.id)
          /\ spheres'[id].name \in DOMAIN renderables'
          /\ renderables'[spheres'[id].name] = id
     /\ UpdateStep => renderables' = renderables
     /\ \A id \in DOMAIN spheres :
          (~spheres[id].disposed /\ spheres'[id].disposed) =>
            /\ spheres[id].name \notin DOMAIN renderables'
            /\ markerWorldPosition(renderables', spheres[id].name).position = Undefined]_vars

\* C25: every call of RenderableSphere.geometry with a detail level returns the
\* geometry object the first call with that level returned, whatever levels were
\* requested in between
C25_GeometryPerLevel ==
  result.op = "geometry" => result.geometry = result.firsts[result.level]

\* C26: the renderable holds the message received last: after update(m) the sphere's
\* marker is m, and after an accepted point cloud m the topic's stored message is m;
\* in both cases srcTime is m's stamp in nanoseconds, also when that is older than
\* the srcTime stored before
C26_LatestReceived ==
  /\ result.op = "update" =>
       /\ spheres[result.id].marker = result.marker
       /\ spheres[result.id].userData.srcTime = rosTimeToNanoSec(result.marker.header.stamp)
       /\ spheres[result.id].userData.pose = result.marker.pose
  /\ Accepted =>
       /\ pointCloudsByTopic[result.topic].pointCloud = Message
       /\ pointCloudsByTopic[result.topic].srcTime = rosTimeToNanoSec(Message.header.stamp)

\* a sphere updated with a marker older than the one it held
C26_Witness ==
  /\ result.op = "update"
  /\ rosTimeToNanoSec(result.marker.header.stamp) < result.before
  /\ spheres[result.id].userData.srcTime < result.before
  /\ \E t \in DOMAIN pointCloudsByTopic : pointCloudsByTopic[t].srcTime = result.before

\* C27: after every frameHandler that ran to its end both frame ids are "base_link",
\* whatever was assigned to them between the ticks, and every collection startFrame
\* called within a tick sees both set to "base_link"
C27_FrameIds ==
  result.op = "tick" =>
    /\ result.executed =>
         /\ fixedFrameId = "base_link"
         /\ renderFrameId = "base_link"
    /\ \A call \in DOMAIN result.seen :
         result.seen[call] = FrameIds("base_link", "base_link")

\* a frame that ran to its end after other values had been assigned to the ids
C27_Witness ==
  /\ result.op = "tick"
  /\ result.executed
  /\ result.before = FrameIds("map", Undefined)
  /\ DOMAIN result.seen = CollectionCalls
  /\ \E i \in DOMAIN log : log[i].event = "endFrame" /\ i < Len(log) - 6

ColorFieldMissing ==
  LET settings == pointCloudsByTopic[result.topic].settings
  IN ~HasProp(settings, "colorField") \/ ~Declares(Message, settings.colorField)

\* C28: a message that does not declare the topic's colour field (or whose topic
\* has none) is accepted when it declares two of x/y/z, and the colour value of each
\* point is then read with the x reader if x is declared, else with the y reader
C28_ColorFallback ==
  (Added /\ ColorFieldMissing /\ Cardinality(DeclaredAxes(Message)) >= 2
         /\ StructuralError(Message) = "")
    => /\ Accepted
       /\ LET color == pointCloudsByTopic[result.topic].geometry.color
              field == IF Declares(Message, "x") THEN FieldNamed(Message, "x")
                       ELSE FieldNamed(Message, "y")
              reader == getReader(field, Message.point_step)
          IN /\ reader.kind = "uint8"
             /\ Len(color) = Len(Message.data) \div Message.point_step
             /\ \A i \in DOMAIN color :
                  color[i].value = Read(reader, Message.data, (i - 1) * Message.point_step)

\* an accepted message without x on a topic whose colour field it does not declare:
\* the colours are the y values, which differ from the z values and from 0
C28_Witness ==
  /\ Accepted
  /\ ColorFieldMissing
  /\ HasProp(pointCloudsByTopic[result.topic].settings, "colorField")
  /\ ~Declares(Message, "x")
  /\ \E i \in DOMAIN pointCloudsByTopic[result.topic].geometry.color :
       LET written == pointCloudsByTopic[result.topic].geometry
       IN /\ written.color[i].value = written.position[i][2]
          /\ written.color[i].value # written.position[i][3]
          /\ written.color[i].value # 0

\* the point records that the loops of the last message went through
RecordsRead == 0..(Len(pointCloudsByTopic[result.topic].geometry.position) - 1)

\* C29: for an accepted message every point record that the min/max scan and the
\* population loop read lies inside the payload: i * point_step + point_step <=
\* data.length for every i below the point count, and no value was read past the end
C29_RecordsInside ==
  Accepted =>
    /\ \A i \in RecordsRead :
         i * Message.point_step + Message.point_step <= Len(Message.data)
    /\ \A i \in RecordsRead :
         LET written == pointCloudsByTopic[result.topic].geometry
         IN /\ \A a \in 1..3 : written.position[i + 1][a] # OutOfRange
            /\ written.color[i + 1].value # OutOfRange
            /\ written.color[i + 1].minValue # OutOfRange

\* an accepted message of several points whose last record ends where the data ends
C29_Witness ==
  /\ Accepted
  /\ Cardinality(RecordsRead) >= 2
  /\ Cardinality(RecordsRead) * Message.point_step = Len(Message.data)
  /\ Message.point_step >= 2

\* C30: a message whose point_step is 0 is rejected by the checks that precede the
\* parsing of the fields, whatever the length of its data, and the geometry is left
\* as it was; an accepted message has a positive point_step and a finite point
\* count, and the loops wrote exactly that many points
C30_ZeroStep ==
  [][result'.op = "addPointCloud2Message" =>
       LET topic == result'.topic
           pointCloud == result'.pointCloud
           written == pointCloudsByTopic'[topic].geometry
           count == Len(written.position)
       IN /\ pointCloud.point_step = 0 =>
               /\ result'.message \in { "is_bigendian=true is not supported",
                                        "data length is not a multiple of point_step" }
               /\ written = IF topic \in DOMAIN pointCloudsByTopic
                            THEN pointCloudsByTopic[topic].geometry
                            ELSE NewGeometry
          /\ result'.message = "" =>
               /\ pointCloud.point_step > 0
               /\ PointCount(Len(pointCloud.data), pointCloud.point_step) # PosInf
               /\ count = PointCount(Len(pointCloud.data), pointCloud.point_step)
               /\ count \in 0..Len(pointCloud.data)
               /\ Len(written.color) = count]_vars

\* a message with point_step 0 and no data, rejected on a topic that holds the
\* points of an earlier message
C30_Witness ==
  /\ Rejected
  /\ Message.point_step = 0
  /\ Len(Message.data) = 0
  /\ Len(pointCloudsByTopic[result.topic].geometry.position) > 0

====
